---- MODULE Spec2Model ----
(***************************************************************************)
(* State-machine model of the query pipeline of the dataset_construction   *)
(* providers: default.py (Query, BaseEndpoint, BaseProviderClass) and      *)
(* gbif.py (GBIF_API_V1_Endpoint and its subclasses, GBIF_API_V1).         *)
(*                                                                         *)
(* One provider object (the GBIF_API_V1 built at gbif.py:458) owns the     *)
(* four endpoints of its mapping.  A fifth endpoint, "custom", is a        *)
(* user-written subclass of GBIF_API_V1_Endpoint that overrides the        *)
(* optional method authenticate and may reset the optional attribute       *)
(* _do_authentication (BaseEndpoint docstring, default.py:37-50); it is    *)
(* the only way the (False, message) branch of _execute_query is reached.  *)
(*                                                                         *)
(* Python values are records tagged by their type in field t.  Strings     *)
(* are TLA+ strings; str.join and f-strings are modelled on token          *)
(* sequences that Concat flattens into a string.                           *)
(***************************************************************************)
EXTENDS Integers, Sequences, FiniteSets, TLC

VARIABLES
    ctor,               \* the arguments GBIF_API_V1(...) is called with
    environ,            \* os.environ: GBIF_USER and GBIF_PASSWORD
    provider,           \* "unconstructed", "constructed" or "failed"
    warnings,           \* number of warnings GBIF_API_V1.__init__ printed
    user,               \* GBIF_API_V1.user
    password,           \* GBIF_API_V1.password
    logger_bound,       \* the function bound to BaseProviderClass._logger
    endpoints_map,      \* GBIF_API_V1._endpoints: key -> endpoint
    endpoint_attrs,     \* endpoint -> provider, name, sub_url, delimiters
    do_authentication,  \* endpoint -> BaseEndpoint._do_authentication
    direct,             \* outcome of the last direct endpoint.authenticate()
    returned,           \* call -> value query() returned to its caller
    sink,               \* every invocation of provider._logger, in order
    pc,                 \* call -> position of the query() call
    endpoint,           \* call -> endpoint the call runs on
    query,              \* call -> Query built by _construct_query
    execute_args,       \* call -> the execute_args argument of BaseEndpoint.query
    timeout,            \* call -> timeout handed to _execute via execute_args
    authenticate,       \* call -> the authenticate argument of _execute_query
    auth_result,        \* call -> value returned by self.authenticate()
    auth,               \* call -> local auth of _execute_query
    result,             \* call -> local result of _execute_query
    response,           \* call -> response delivered by requests.get
    fault,              \* call -> exception that left query()
    authCalls,          \* call -> number of invocations of authenticate
    executeCalls,       \* call -> number of invocations of _execute
    requests,           \* call -> GET requests handed to the transport
    urlArgs,            \* inputs of the URL composition under SpecUrl
    urlOut              \* URL composed from urlArgs under SpecUrl

\* What the constructor reads and writes.
ctorVars == <<ctor, environ, provider, warnings, user, password>>

\* Attributes of the provider and of its endpoints set at construction.
objectVars == <<logger_bound, endpoints_map, endpoint_attrs, do_authentication>>

callVars == <<pc, endpoint, query, execute_args, timeout, authenticate, auth_result, auth,
              result, response, fault, authCalls, executeCalls, requests,
              returned>>

vars == <<ctorVars, objectVars, direct, sink, callVars, urlArgs, urlOut,
                   returned>>

(***************************************************************************)
(* Bounds of the model.                                                    *)
(***************************************************************************)
MaxCalls == 2
MaxSubendpoints == 2
MaxParameters == 2

Calls == 1..MaxCalls

(***************************************************************************)
(* Python values.                                                          *)
(***************************************************************************)
None == [t |-> "None"]
PyStr(s) == [t |-> "str", s |-> s]
PyInt(n) == [t |-> "int", n |-> n]
PyList(elems) == [t |-> "list", elems |-> elems]
PyDict(items) == [t |-> "dict", items |-> items]
HTTPBasicAuth(u, p) == [t |-> "HTTPBasicAuth", username |-> u, password |-> p]

RECURSIVE Concat(_)
Concat(tokens) ==
    IF tokens = <<>> THEN "" ELSE Head(tokens) \o Concat(Tail(tokens))

Digit(d) ==
    CASE d = 0 -> "0" [] d = 1 -> "1" [] d = 2 -> "2" [] d = 3 -> "3"
      [] d = 4 -> "4" [] d = 5 -> "5" [] d = 6 -> "6" [] d = 7 -> "7"
      [] d = 8 -> "8" [] d = 9 -> "9"

RECURSIVE IntStr(_)
IntStr(n) ==
    IF n < 0 THEN "-" \o IntStr(0 - n)
    ELSE IF n < 10 THEN Digit(n)
    ELSE IntStr(n \div 10) \o Digit(n % 10)

\* str.join on a list of strings: the parts with sep between neighbours.
RECURSIVE JoinTokens(_, _)
JoinTokens(sep, parts) ==
    IF parts = <<>> THEN <<>>
    ELSE IF Len(parts) = 1 THEN <<Head(parts)>>
    ELSE <<Head(parts), sep>> \o JoinTokens(sep, Tail(parts))

\* repr() of a value (strings without quote characters).
RECURSIVE Repr(_)
ReprItems(items) ==
    JoinTokens(", ", [i \in 1..Len(items) |->
        Concat(<<Repr(PyStr(items[i][1])), ": ", Repr(items[i][2])>>)])
ReprList(elems) ==
    JoinTokens(", ", [i \in 1..Len(elems) |-> Repr(PyStr(elems[i]))])
Repr(v) ==
    CASE v.t = "str" -> Concat(<<"'", v.s, "'">>)
      [] v.t = "int" -> IntStr(v.n)
      [] v.t = "None" -> "None"
      [] v.t = "bool" -> IF v.b THEN "True" ELSE "False"
      [] v.t = "list" -> Concat(<<"[">> \o ReprList(v.elems) \o <<"]">>)
      [] v.t = "dict" -> Concat(<<"{">> \o ReprItems(v.items) \o <<"}">>)
      [] v.t = "HTTPBasicAuth" -> "<requests.auth.HTTPBasicAuth object>"

\* format(value, "") as used by an f-string replacement field.
Format(v) == IF v.t = "str" THEN v.s ELSE Repr(v)

(***************************************************************************)
(* Query (default.py:3-26).                                                *)
(***************************************************************************)
\* Query.__init__ stores its two arguments as they are: a list is
\* PyList(<<element, ...>>), a dict is PyDict of its <<key, value>> pairs in
\* insertion order.
Query(subendpoints, parameters) ==
    [t |-> "Query", subendpoints |-> subendpoints, parameters |-> parameters]

\* Faulty variant of QueryStrTokens: the parameters are left out.
QueryStrTokensSubendpointsOnly(q) ==
    <<"{'subendpoints': ", Repr(q.subendpoints), "}">>

\* Query.__str__: str() of the instance __dict__, in pieces.
QueryStrTokens(q) ==
    <<"{'subendpoints': ", Repr(q.subendpoints),
      ", 'parameters': ", Repr(q.parameters), "}">>

QueryStr(q) == Concat(QueryStrTokens(q))

\* The (success, payload) tuple returned by _execute.
Pair(success, payload) ==
    [t |-> "tuple", success |-> success, payload |-> payload]

PairStr(r) ==
    Concat(<<"(", IF r.success THEN "True" ELSE "False", ", ",
             Repr(r.payload), ")">>)

\* what.__str__() as BaseProviderClass.log calls it.
Str(what) ==
    CASE what.t = "str" -> what.s
      [] what.t = "Query" -> QueryStr(what)
      [] what.t = "tuple" -> PairStr(what)
      [] OTHER -> Repr(what)

\* callable(getattr(what, "__str__", None))
HasStr(what) == what.t # "NoStr"

(***************************************************************************)
(* BaseProviderClass.log (default.py:131-145): the sink after the call.    *)
(* An entry records the call and the call site that produced it.           *)
(***************************************************************************)
log(snk, c, site, what) ==
    Append(snk, [call |-> c, site |-> site, via |-> "log", text |-> Str(what)])

\* self.provider._logger(text), the sink invoked directly (gbif.py:43).
logger(snk, c, site, text) ==
    Append(snk, [call |-> c, site |-> site, via |-> "_logger", text |-> text])

(***************************************************************************)
(* The provider and its endpoints (gbif.py:17-26, 63-130, 197-212).        *)
(***************************************************************************)
GbifEndpoints == {"registry", "species", "occurrence", "maps"}
Endpoints == GbifEndpoints \cup {"custom"}

\* "base" is a plain BaseEndpoint (default.py:55-61): it has no query
\* construction and no authentication of its own.
AllEndpoints == Endpoints \cup {"base"}

url == "https://api.gbif.org/v1"

sub_url(e) ==
    CASE e = "registry" -> "registry"
      [] e = "species" -> "species"
      [] e = "occurrence" -> "occurrence"
      [] e = "maps" -> "maps"
      [] e = "custom" -> "custom"
      [] e = "base" -> "base"

endpoint_delimiter == "/"
arguments_delimiter == "&"
endpoint_arguments_delimiter == "?"

\* The attributes the endpoint constructors store (default.py:58-60,
\* gbif.py:24-26).
EndpointAttrs(e) ==
    IF e = "base"
    THEN [provider |-> "GBIF_API_V1", name |-> e, sub_url |-> sub_url(e)]
    ELSE [provider |-> "GBIF_API_V1", name |-> e, sub_url |-> sub_url(e),
          endpoint_delimiter |-> endpoint_delimiter,
          arguments_delimiter |-> arguments_delimiter,
          endpoint_arguments_delimiter |-> endpoint_arguments_delimiter]

\* GBIF_API_V1._endpoints (gbif.py:197-202).
EndpointsMap == [k \in GbifEndpoints |-> k]

(***************************************************************************)
(* GBIF_API_V1.__init__ (gbif.py:189-196).                                 *)
(***************************************************************************)
\* gbif.py:191: if not user is None or not password is not None
CtorWarns(a) == ~(a.user = None) \/ ~(a.password # None)

\* gbif.py:193-194, reached only under the condition of line 191.
CtorAsserts(a) ==
    /\ a.user.t \in {"str", "None"}
    /\ a.password.t \in {"str", "None"}

\* Faulty variant of Stored: the environment takes precedence.
StoredEnvFirst(arg, env) == IF env = None THEN arg ELSE env

\* gbif.py:195-196: os.getenv(...) if arg is None else arg
Stored(arg, env) == IF arg = None THEN env ELSE arg

\* The constructor call of gbif.py:458-461.
ProgramCtor ==
    [user |-> PyStr("asvenning_au_workaccount"), password |-> PyStr("hp12rs123")]

NoEnviron == [GBIF_USER |-> None, GBIF_PASSWORD |-> None]

\* Faulty variant of ProviderAuthenticate: authentication fails when a
\* credential field is missing.
ProviderAuthenticateChecked(u, p) ==
    IF u = None \/ p = None
    THEN [ok |-> FALSE, value |-> PyStr("missing credentials")]
    ELSE [ok |-> TRUE, value |-> HTTPBasicAuth(u, p)]

\* GBIF_API_V1.authenticate
ProviderAuthenticate(u, p) == [ok |-> TRUE, value |-> HTTPBasicAuth(u, p)]

\* An instance of a class whose __str__ is not callable.
NoStr == [t |-> "NoStr"]

\* The values self.authenticate() can return on endpoint e; the override of
\* the custom endpoint can return a failure message or any object at all.
AuthenticateResults(e, u, p) ==
    IF e = "custom"
    THEN {ProviderAuthenticate(u, p),
          [ok |-> FALSE, value |-> PyStr("invalid credentials")],
          [ok |-> TRUE, value |-> NoStr]}
    ELSE {ProviderAuthenticate(u, p)}

AllAuthenticateResults ==
    UNION {AuthenticateResults(e, user, password) : e \in Endpoints}

(***************************************************************************)
(* URL composition of GBIF_API_V1_Endpoint._execute (gbif.py:39-42).       *)
(***************************************************************************)
\* Faulty variant of ArgumentTokens: keys and values inserted by repr().
ArgumentTokensRepr(parameters) ==
    [i \in 1..Len(parameters) |->
        Concat(<<Repr(PyStr(parameters[i][1])), "=", Repr(parameters[i][2])>>)]

\* gbif.py:41: the f"{key}={value}" texts, in the order of the dict.
ArgumentTokens(parameters) ==
    [i \in 1..Len(parameters) |->
        Concat(<<Format(PyStr(parameters[i][1])), "=", Format(parameters[i][2])>>)]

UrlTokens(base, sub, q) ==
    JoinTokens(endpoint_delimiter, <<base, sub>> \o q.subendpoints.elems)
    \o <<endpoint_arguments_delimiter>>
    \o JoinTokens(arguments_delimiter, ArgumentTokens(q.parameters.items))

ComposeUrl(base, sub, q) == Concat(UrlTokens(base, sub, q))

(***************************************************************************)
(* The transport: what requests.get can deliver.                           *)
(***************************************************************************)
Response(status_code, text) ==
    [t |-> "Response", status_code |-> status_code, text |-> text]
Raise(type, arg) == [t |-> "raise", type |-> type, arg |-> arg]

JsonBody == "{\"key\":\"value\"}"
TextBody == "not found"
Responses == {Response(s, b) : s \in {200, 404}, b \in {JsonBody, TextBody}}

\* response.json() on the bodies above.
JsonDecode(text) ==
    IF text = JsonBody
    THEN [ok |-> TRUE, value |-> PyDict(<<<<"key", PyStr("value")>>>>)]
    ELSE [ok |-> FALSE, value |-> None]

TransportFaults(tmo) ==
    {"ConnectionError"} \cup (IF tmo = None THEN {} ELSE {"Timeout"})

\* Faulty variant of Classify: a 200 response yields its raw text.
ClassifyRawBody(r) ==
    IF r.status_code = 200
    THEN Pair(TRUE, PyStr(r.text))
    ELSE Pair(FALSE, PyStr(r.text))

\* gbif.py:45-48: the outcome of _execute for a delivered response.
Classify(r) ==
    IF r.status_code = 200
    THEN IF JsonDecode(r.text).ok
         THEN Pair(TRUE, JsonDecode(r.text).value)
         ELSE Raise("JSONDecodeError", PyStr(r.text))
    ELSE Pair(FALSE, PyStr(r.text))

(***************************************************************************)
(* Inputs of the calls.  The first is the call of gbif.py:463.             *)
(***************************************************************************)
\* A required argument the caller left out (gbif.py:50).
Missing == [t |-> "missing"]

QueryArgs ==
    {[subendpoints |-> PyList(<<"suggest">>),
      parameters |-> PyDict(<<<<"q", PyStr("Picea abies")>>>>),
      timeout |-> None],
     [subendpoints |-> PyList(<<>>), parameters |-> PyDict(<<>>),
      timeout |-> PyInt(5)]}

Terminal(c) == pc[c] \in {"returned", "raised"}

\* query() is synchronous: a call starts when the calls before it are over.
CanStart(c) == pc[c] = "idle" /\ \A d \in Calls : d < c => Terminal(d)

\* An exception leaves query(): the call is over.
Raised(c, type, arg) ==
    /\ pc' = [pc EXCEPT ![c] = "raised"]
    /\ fault' = [fault EXCEPT ![c] = Raise(type, arg)]

(***************************************************************************)
(* GBIF_API_V1_Endpoint.query -> BaseEndpoint.query (gbif.py:50-61,        *)
(* default.py:91-98): builds the Query and enters _execute_query with      *)
(* authenticate = self._do_authentication; without authentication the      *)
(* local auth is None (default.py:79-80).                                  *)
(***************************************************************************)
\* The timeout keyword in execute_args; _execute defaults it to None
\* (gbif.py:34).
TimeoutOf(x) == IF Len(x.items) = 0 THEN None ELSE x.items[1][2]

\* Faulty variant of BaseQuery: execute_args left out counts as no keyword
\* arguments.
BaseQueryDefaultsToEmpty(c, e, a, x) ==
    /\ provider = "constructed"
    /\ endpoint' = [endpoint EXCEPT ![c] = e]
    /\ query' = [query EXCEPT ![c] = Query(a.subendpoints, a.parameters)]
    /\ execute_args' = [execute_args EXCEPT ![c] = x]
    /\ timeout' = [timeout EXCEPT ![c] =
                     IF x.t # "dict" THEN None ELSE TimeoutOf(x)]
    /\ authenticate' = [authenticate EXCEPT ![c] = do_authentication[e]]
    /\ pc' = [pc EXCEPT ![c] =
                IF do_authentication[e] THEN "authenticate" ELSE "log_query"]
    /\ UNCHANGED <<ctorVars, objectVars, direct, sink, auth_result, auth,
                   result, response, fault, authCalls, executeCalls, requests,
                   urlArgs, urlOut, returned>>

\* BaseEndpoint.query(execute_args=x, subendpoints=..., parameters=...)
\* (default.py:91-98): _construct_query is evaluated first, then
\* **execute_args is unpacked, which raises TypeError when x is not a
\* mapping, before _execute_query is entered.
BaseQuery(c, e, a, x) ==
    /\ provider = "constructed"
    /\ endpoint' = [endpoint EXCEPT ![c] = e]
    /\ query' = [query EXCEPT ![c] = Query(a.subendpoints, a.parameters)]
    /\ execute_args' = [execute_args EXCEPT ![c] = x]
    /\ IF x.t # "dict"
       THEN /\ Raised(c, "TypeError", PyStr("execute_args"))
            /\ UNCHANGED <<timeout, authenticate>>
       ELSE /\ timeout' = [timeout EXCEPT ![c] = TimeoutOf(x)]
            /\ authenticate' = [authenticate EXCEPT ![c] =
                                  do_authentication[e]]
            /\ pc' = [pc EXCEPT ![c] =
                        IF do_authentication[e] THEN "authenticate"
                                                ELSE "log_query"]
            /\ UNCHANGED fault
    /\ UNCHANGED <<ctorVars, objectVars, direct, sink, auth_result, auth,
                   result, response, authCalls, executeCalls, requests,
                   urlArgs, urlOut, returned>>

\* GBIF_API_V1_Endpoint.query(subendpoints, parameters, timeout)
\* (gbif.py:50-61): a required argument left out raises at the call; else
\* super().query(execute_args={"timeout": timeout}, ...).
Enter(c, e, a) ==
    IF Missing \in {a.subendpoints, a.parameters}
    THEN /\ provider = "constructed"
         /\ endpoint' = [endpoint EXCEPT ![c] = e]
         /\ Raised(c, "TypeError", PyStr("query"))
         /\ UNCHANGED <<ctorVars, objectVars, direct, sink, query,
                        execute_args, timeout, authenticate, auth_result,
                        auth, result, response, authCalls, executeCalls,
                        requests, urlArgs, urlOut, returned>>
    ELSE BaseQuery(c, e, a, PyDict(<<<<"timeout", a.timeout>>>>))

\* Faulty variant of QueryCall: authenticate=True is passed whatever the
\* endpoint's _do_authentication.
QueryCallAlwaysAuthenticate(c, e, a) ==
    /\ CanStart(c)
    /\ endpoint' = [endpoint EXCEPT ![c] = e]
    /\ query' = [query EXCEPT ![c] = Query(a.subendpoints, a.parameters)]
    /\ execute_args' = [execute_args EXCEPT ![c] =
                          PyDict(<<<<"timeout", a.timeout>>>>)]
    /\ timeout' = [timeout EXCEPT ![c] = a.timeout]
    /\ authenticate' = [authenticate EXCEPT ![c] = TRUE]
    /\ pc' = [pc EXCEPT ![c] = "authenticate"]
    /\ UNCHANGED <<ctorVars, objectVars, direct, sink, auth_result, auth,
                   result, response, fault, authCalls, executeCalls, requests,
                   urlArgs, urlOut,
                   returned>>

\* query() called when no other call is in progress.
QueryCall(c, e, a) == CanStart(c) /\ Enter(c, e, a)

\* default.py:72: auth_result = self.authenticate()
Authenticate(c, r) ==
    /\ pc[c] = "authenticate"
    /\ r \in AuthenticateResults(endpoint[c], user, password)
    /\ authCalls' = [authCalls EXCEPT ![c] = @ + 1]
    /\ auth_result' = [auth_result EXCEPT ![c] = r]
    /\ pc' = [pc EXCEPT ![c] = "log_auth"]
    /\ UNCHANGED <<ctorVars, objectVars, direct, execute_args,
                   sink, endpoint, query,
                   timeout, authenticate, auth, result, response, fault,
                   executeCalls, requests, urlArgs, urlOut,
                   returned>>

\* Faulty variant of LogAuth: a failed authentication is logged but does not
\* abort the call.
LogAuthNoRaise(c) ==
    /\ pc[c] = "log_auth"
    /\ sink' = log(sink, c, "auth", auth_result[c].value)
    /\ auth' = [auth EXCEPT ![c] = auth_result[c].value]
    /\ pc' = [pc EXCEPT ![c] = "log_query"]
    /\ UNCHANGED <<ctorVars, objectVars, direct, execute_args,
                   endpoint, query, timeout,
                   authenticate, auth_result, result, response, fault,
                   authCalls, executeCalls, requests, urlArgs, urlOut,
                   returned>>

\* Faulty variant of LogAuth: the message is logged only when authentication
\* failed.
LogAuthOnFailureOnly(c) ==
    /\ pc[c] = "log_auth"
    /\ IF ~auth_result[c].ok
       THEN /\ sink' = log(sink, c, "auth", auth_result[c].value)
            /\ Raised(c, "Exception", auth_result[c].value)
            /\ UNCHANGED auth
       ELSE /\ auth' = [auth EXCEPT ![c] = auth_result[c].value]
            /\ pc' = [pc EXCEPT ![c] = "log_query"]
            /\ UNCHANGED <<sink, fault>>
    /\ UNCHANGED <<ctorVars, objectVars, direct, execute_args,
                   endpoint, query, timeout,
                   authenticate, auth_result, result, response, authCalls,
                   executeCalls, requests, urlArgs, urlOut,
                   returned>>

\* Faulty variant of LogAuth: the sink is invoked with a placeholder before
\* the missing __str__ is noticed.
LogAuthSinkFirst(c) ==
    /\ pc[c] = "log_auth"
    /\ IF ~HasStr(auth_result[c].value)
       THEN /\ sink' = logger(sink, c, "auth", "<object>")
            /\ Raised(c, "TypeError", PyStr("log"))
            /\ UNCHANGED auth
       ELSE /\ sink' = log(sink, c, "auth", auth_result[c].value)
            /\ IF ~auth_result[c].ok
               THEN /\ Raised(c, "Exception", auth_result[c].value)
                    /\ UNCHANGED auth
               ELSE /\ auth' = [auth EXCEPT ![c] = auth_result[c].value]
                    /\ pc' = [pc EXCEPT ![c] = "log_query"]
                    /\ UNCHANGED fault
    /\ UNCHANGED <<ctorVars, objectVars, direct, execute_args,
                   endpoint, query, timeout,
                   authenticate, auth_result, result, response, authCalls,
                   executeCalls, requests, urlArgs, urlOut,
                   returned>>

\* Faulty variant of LogAuth: after a failed authentication the call
\* authenticates a second time before it gives up.
LogAuthRetries(c) ==
    /\ pc[c] = "log_auth"
    /\ IF ~HasStr(auth_result[c].value)
       THEN /\ Raised(c, "TypeError", PyStr("log"))
            /\ UNCHANGED <<sink, auth>>
       ELSE /\ sink' = log(sink, c, "auth", auth_result[c].value)
            /\ IF ~auth_result[c].ok
               THEN /\ IF authCalls[c] < 2
                       THEN /\ pc' = [pc EXCEPT ![c] = "authenticate"]
                            /\ UNCHANGED fault
                       ELSE Raised(c, "Exception", auth_result[c].value)
                    /\ UNCHANGED auth
               ELSE /\ auth' = [auth EXCEPT ![c] = auth_result[c].value]
                    /\ pc' = [pc EXCEPT ![c] = "log_query"]
                    /\ UNCHANGED fault
    /\ UNCHANGED <<ctorVars, objectVars, direct, execute_args,
                   endpoint, query, timeout,
                   authenticate, auth_result, result, response, authCalls,
                   executeCalls, requests, urlArgs, urlOut,
                   returned>>

\* default.py:74-78: log the message (BaseProviderClass.log raises TypeError
\* before it touches the sink when the message has no callable __str__,
\* default.py:141-142), raise if authentication failed.
LogAuth(c) ==
    /\ pc[c] = "log_auth"
    /\ IF ~HasStr(auth_result[c].value)
       THEN /\ Raised(c, "TypeError", PyStr("log"))
            /\ UNCHANGED <<sink, auth>>
       ELSE /\ sink' = log(sink, c, "auth", auth_result[c].value)
            /\ IF ~auth_result[c].ok
               THEN /\ Raised(c, "Exception", auth_result[c].value)
                    /\ UNCHANGED auth
               ELSE /\ auth' = [auth EXCEPT ![c] = auth_result[c].value]
                    /\ pc' = [pc EXCEPT ![c] = "log_query"]
                    /\ UNCHANGED fault
    /\ UNCHANGED <<ctorVars, objectVars, direct, execute_args,
                   endpoint, query, timeout,
                   authenticate, auth_result, result, response, authCalls,
                   executeCalls, requests, urlArgs, urlOut,
                   returned>>

\* Faulty variant of LogQuery: the Query is not logged before _execute.
LogQueryOmitted(c) ==
    /\ pc[c] = "log_query"
    /\ pc' = [pc EXCEPT ![c] = "execute"]
    /\ UNCHANGED <<ctorVars, objectVars, direct, execute_args,
                   sink, endpoint, query,
                   timeout, authenticate, auth_result, auth, result, response,
                   fault, authCalls, executeCalls, requests, urlArgs, urlOut,
                   returned>>

\* Faulty variant of LogQuery: the Query is not logged while another call
\* is inside _execute.
LogQueryUnlessBusy(c) ==
    /\ pc[c] = "log_query"
    /\ sink' = IF \E d \in Calls \ {c} : pc[d] = "request"
               THEN sink
               ELSE log(sink, c, "query", query[c])
    /\ pc' = [pc EXCEPT ![c] = "execute"]
    /\ UNCHANGED <<ctorVars, objectVars, direct, execute_args,
                   endpoint, query, timeout,
                   authenticate, auth_result, auth, result, response, fault,
                   authCalls, executeCalls, requests, urlArgs, urlOut,
                   returned>>

\* default.py:82: self.provider.log(query)
LogQuery(c) ==
    /\ pc[c] = "log_query"
    /\ sink' = log(sink, c, "query", query[c])
    /\ pc' = [pc EXCEPT ![c] = "execute"]
    /\ UNCHANGED <<ctorVars, objectVars, direct, execute_args,
                   endpoint, query, timeout,
                   authenticate, auth_result, auth, result, response, fault,
                   authCalls, executeCalls, requests, urlArgs, urlOut,
                   returned>>

\* The GET request of gbif.py:44.
Request(c) ==
    [url |-> ComposeUrl(url, endpoint_attrs[endpoint[c]].sub_url, query[c]),
     auth |-> auth[c], timeout |-> timeout[c]]

\* gbif.py:35-38: the exception the argument checks raise, or None.
ArgumentCheck(q, authentication) ==
    IF q.t # "Query" THEN Raise("TypeError", PyStr("query"))
    ELSE IF authentication.t # "HTTPBasicAuth"
         THEN Raise("TypeError", PyStr("authentication"))
         ELSE None

\* gbif.py:39-41: the exception the URL composition raises on attributes
\* that are not a list and a dict, or None.
UrlFault(q) ==
    IF q.subendpoints.t # "list" THEN Raise("TypeError", PyStr("subendpoints"))
    ELSE IF q.parameters.t # "dict"
         THEN Raise("AttributeError", PyStr("parameters"))
         ELSE None

\* Faulty variant of Execute: the URL pieces are put in front of the
\* Query's own subendpoints list instead of a new list.
ExecuteExtendsQuery(c) ==
    /\ pc[c] = "execute"
    /\ executeCalls' = [executeCalls EXCEPT ![c] = @ + 1]
    /\ IF endpoint[c] = "maps"
       THEN /\ Raised(c, "TypeError", PyStr("_execute"))
            /\ UNCHANGED <<sink, requests, query>>
       ELSE IF ArgumentCheck(query[c], auth[c]) # None
       THEN /\ Raised(c, "TypeError", ArgumentCheck(query[c], auth[c]).arg)
            /\ UNCHANGED <<sink, requests, query>>
       ELSE IF UrlFault(query[c]) # None
       THEN /\ Raised(c, UrlFault(query[c]).type, UrlFault(query[c]).arg)
            /\ UNCHANGED <<sink, requests, query>>
       ELSE /\ sink' = logger(sink, c, "querying",
                              "Querying " \o Request(c).url)
            /\ requests' = [requests EXCEPT ![c] = Append(@, Request(c))]
            /\ query' = [query EXCEPT ![c].subendpoints =
                           PyList(<<url, endpoint_attrs[endpoint[c]].sub_url>>
                                  \o @.elems)]
            /\ pc' = [pc EXCEPT ![c] = "request"]
            /\ UNCHANGED fault
    /\ UNCHANGED <<ctorVars, objectVars, direct, execute_args,
                   endpoint, timeout,
                   authenticate, auth_result, auth, result, response, authCalls,
                   urlArgs, urlOut, returned>>

(***************************************************************************)
(* default.py:83: result = self._execute(query, auth, **kwargs), up to the *)
(* point where requests.get blocks.  GBIF_API_V1_Maps._execute(self)       *)
(* (gbif.py:154-155) takes no argument, so the call itself raises          *)
(* TypeError; every other endpoint runs gbif.py:34-44.                     *)
(***************************************************************************)
Execute(c) ==
    /\ pc[c] = "execute"
    /\ executeCalls' = [executeCalls EXCEPT ![c] = @ + 1]
    /\ IF endpoint[c] = "maps"
       THEN /\ Raised(c, "TypeError", PyStr("_execute"))
            /\ UNCHANGED <<sink, requests>>
       ELSE IF ArgumentCheck(query[c], auth[c]) # None
       THEN /\ Raised(c, "TypeError", ArgumentCheck(query[c], auth[c]).arg)
            /\ UNCHANGED <<sink, requests>>
       ELSE IF UrlFault(query[c]) # None
       THEN /\ Raised(c, UrlFault(query[c]).type, UrlFault(query[c]).arg)
            /\ UNCHANGED <<sink, requests>>
       ELSE /\ sink' = logger(sink, c, "querying",
                              "Querying " \o Request(c).url)
            /\ requests' = [requests EXCEPT ![c] = Append(@, Request(c))]
            /\ pc' = [pc EXCEPT ![c] = "request"]
            /\ UNCHANGED fault
    /\ UNCHANGED <<ctorVars, objectVars, direct, execute_args,
                   endpoint, query, timeout,
                   authenticate, auth_result, auth, result, response, authCalls,
                   urlArgs, urlOut,
                   returned>>

\* Faulty variant of Respond: after a first status other than 200 the call
\* goes back to _execute.
RespondRetryOnFailure(c, r) ==
    /\ pc[c] = "request"
    /\ r \in Responses
    /\ response' = [response EXCEPT ![c] = r]
    /\ IF Classify(r).t = "raise"
       THEN /\ Raised(c, Classify(r).type, Classify(r).arg)
            /\ UNCHANGED result
       ELSE IF ~Classify(r).success /\ executeCalls[c] < 2
       THEN /\ pc' = [pc EXCEPT ![c] = "execute"]
            /\ UNCHANGED <<result, fault>>
       ELSE /\ result' = [result EXCEPT ![c] = Classify(r)]
            /\ pc' = [pc EXCEPT ![c] = "log_result"]
            /\ UNCHANGED fault
    /\ UNCHANGED <<ctorVars, objectVars, direct, execute_args,
                   sink, endpoint, query,
                   timeout, authenticate, auth_result, auth, authCalls,
                   executeCalls, requests, urlArgs, urlOut,
                   returned>>

\* gbif.py:44-48: requests.get returns r; _execute classifies it.
Respond(c, r) ==
    /\ pc[c] = "request"
    /\ r \in Responses
    /\ response' = [response EXCEPT ![c] = r]
    /\ IF Classify(r).t = "raise"
       THEN /\ Raised(c, Classify(r).type, Classify(r).arg)
            /\ UNCHANGED result
       ELSE /\ result' = [result EXCEPT ![c] = Classify(r)]
            /\ pc' = [pc EXCEPT ![c] = "log_result"]
            /\ UNCHANGED fault
    /\ UNCHANGED <<ctorVars, objectVars, direct, execute_args,
                   sink, endpoint, query,
                   timeout, authenticate, auth_result, auth, authCalls,
                   executeCalls, requests, urlArgs, urlOut,
                   returned>>

\* Faulty variant of TransportFault: the request is issued once more after
\* a first fault.
TransportFaultRetry(c, k) ==
    /\ pc[c] = "request"
    /\ k \in TransportFaults(timeout[c])
    /\ IF Len(requests[c]) < 2
       THEN /\ requests' = [requests EXCEPT ![c] = Append(@, @[1])]
            /\ UNCHANGED <<pc, fault, response>>
       ELSE /\ response' = [response EXCEPT ![c] = Raise(k, None)]
            /\ Raised(c, k, None)
            /\ UNCHANGED requests
    /\ UNCHANGED <<ctorVars, objectVars, direct, execute_args,
                   sink, endpoint, query,
                   timeout, authenticate, auth_result, auth, result, authCalls,
                   executeCalls, urlArgs, urlOut,
                   returned>>

\* Faulty variant of TransportFault: the fault is caught and returned as a
\* failure pair.
TransportFaultAsFailure(c, k) ==
    /\ pc[c] = "request"
    /\ k \in TransportFaults(timeout[c])
    /\ response' = [response EXCEPT ![c] = Raise(k, None)]
    /\ result' = [result EXCEPT ![c] = Pair(FALSE, PyStr(k))]
    /\ pc' = [pc EXCEPT ![c] = "log_result"]
    /\ UNCHANGED <<ctorVars, objectVars, direct, execute_args,
                   sink, endpoint, query,
                   timeout, authenticate, auth_result, auth, fault, authCalls,
                   executeCalls, requests, urlArgs, urlOut,
                   returned>>

\* Faulty variant of TransportFault: the fault is logged as the result of
\* the call before it is raised again.
TransportFaultLogged(c, k) ==
    /\ pc[c] = "request"
    /\ k \in TransportFaults(timeout[c])
    /\ response' = [response EXCEPT ![c] = Raise(k, None)]
    /\ sink' = log(sink, c, "result", PyStr(k))
    /\ Raised(c, k, None)
    /\ UNCHANGED <<ctorVars, objectVars, direct, execute_args,
                   endpoint, query,
                   timeout, authenticate, auth_result, auth, result, authCalls,
                   executeCalls, requests, urlArgs, urlOut,
                   returned>>

\* gbif.py:44: requests.get raises; nothing catches it up to the caller.
TransportFault(c, k) ==
    /\ pc[c] = "request"
    /\ k \in TransportFaults(timeout[c])
    /\ response' = [response EXCEPT ![c] = Raise(k, None)]
    /\ Raised(c, k, None)
    /\ UNCHANGED <<ctorVars, objectVars, direct, execute_args,
                   sink, endpoint, query,
                   timeout, authenticate, auth_result, auth, result, authCalls,
                   executeCalls, requests, urlArgs, urlOut,
                   returned>>

\* Faulty variant of LogResult: query() returns what provider.log returned,
\* the logged string.
LogResultReturnsLogged(c) ==
    /\ pc[c] = "log_result"
    /\ sink' = log(sink, c, "result", result[c])
    /\ returned' = [returned EXCEPT ![c] = PyStr(Str(result[c]))]
    /\ pc' = [pc EXCEPT ![c] = "returned"]
    /\ UNCHANGED <<ctorVars, objectVars, direct, execute_args,
                   endpoint, query, timeout,
                   authenticate, auth_result, auth, result, response, fault,
                   authCalls, executeCalls, requests, urlArgs, urlOut>>

\* default.py:85-86: log the result and return it; query() returns it in
\* turn (default.py:98, gbif.py:61).
LogResult(c) ==
    /\ pc[c] = "log_result"
    /\ sink' = log(sink, c, "result", result[c])
    /\ returned' = [returned EXCEPT ![c] = result[c]]
    /\ pc' = [pc EXCEPT ![c] = "returned"]
    /\ UNCHANGED <<ctorVars, objectVars, direct, execute_args,
                   endpoint, query, timeout,
                   authenticate, auth_result, auth, result, response, fault,
                   authCalls, executeCalls, requests, urlArgs, urlOut>>

(***************************************************************************)
(* URL composition on its own: inputs drawn from bounded sets.             *)
(***************************************************************************)
RECURSIVE SeqsUpTo(_, _)
SeqsUpTo(S, n) ==
    IF n = 0 THEN {<<>>}
    ELSE SeqsUpTo(S, n - 1)
         \cup {Append(q, x) : q \in SeqsUpTo(S, n - 1), x \in S}

DistinctKeys(ps) ==
    \A i, j \in 1..Len(ps) : ps[i][1] = ps[j][1] => i = j

UrlBases == {url, "https://api.example.org/v1"}
UrlSubs == {"species", "occurrence"}
UrlSubendpoints == SeqsUpTo({"suggest", "search"}, MaxSubendpoints)
UrlItems ==
    {<<"q", PyStr("Picea abies")>>, <<"limit", PyInt(5)>>,
     <<"name", PyStr("a&b=c?d/e")>>}
UrlParameters == {ps \in SeqsUpTo(UrlItems, MaxParameters) : DistinctKeys(ps)}

UrlInputs ==
    [base : UrlBases, sub : UrlSubs,
     q : {Query(PyList(s), PyDict(ps)) :
             s \in UrlSubendpoints, ps \in UrlParameters}]

NoUrlArgs ==
    [base |-> url, sub |-> "species", q |-> Query(PyList(<<>>), PyDict(<<>>))]

\* What a call derives from its Query: the string it logs (default.py:82)
\* and the URL it requests (gbif.py:39-42).
Compose ==
    /\ urlOut = None
    /\ urlOut' = [t |-> "url",
                  tokens |-> UrlTokens(urlArgs.base, urlArgs.sub, urlArgs.q),
                  text |-> ComposeUrl(urlArgs.base, urlArgs.sub, urlArgs.q),
                  str_tokens |-> QueryStrTokens(urlArgs.q),
                  str |-> Str(urlArgs.q)]
    /\ UNCHANGED <<ctorVars, objectVars, direct, sink, urlArgs>>
    /\ UNCHANGED callVars

(***************************************************************************)
(* Specifications.  Init is the state after test = GBIF_API_V1(user=...,   *)
(* password=...) (gbif.py:458-461) and the construction of the custom      *)
(* endpoint.                                                               *)
(***************************************************************************)
\* _do_authentication: True on every GBIF endpoint (gbif.py:23), False on a
\* BaseEndpoint (default.py:61), either on the custom endpoint.
Flags ==
    {f \in [AllEndpoints -> BOOLEAN] :
        /\ \A e \in GbifEndpoints : f[e]
        /\ ~f["base"]}

\* The place of an endpoint where none is involved yet.
NoEndpoint == "none"

\* No direct authenticate() call was made yet.
NoDirect == [n |-> 0, endpoint |-> NoEndpoint, outcome |-> None]

InitObjects ==
    /\ logger_bound = "lambda"
    /\ endpoints_map = EndpointsMap
    /\ endpoint_attrs = [e \in AllEndpoints |-> EndpointAttrs(e)]
    /\ do_authentication \in Flags
    /\ direct = NoDirect
    /\ sink = <<>>

InitProvider ==
    /\ ctor = ProgramCtor
    /\ environ = NoEnviron
    /\ provider = "constructed"
    /\ warnings = IF CtorWarns(ctor) THEN 1 ELSE 0
    /\ user = Stored(ctor.user, environ.GBIF_USER)
    /\ password = Stored(ctor.password, environ.GBIF_PASSWORD)
    /\ InitObjects

InitCalls ==
    /\ pc = [c \in Calls |-> "idle"]
    /\ endpoint = [c \in Calls |-> NoEndpoint]
    /\ query = [c \in Calls |-> None]
    /\ execute_args = [c \in Calls |-> None]
    /\ timeout = [c \in Calls |-> None]
    /\ authenticate = [c \in Calls |-> FALSE]
    /\ auth_result = [c \in Calls |-> None]
    /\ auth = [c \in Calls |-> None]
    /\ result = [c \in Calls |-> None]
    /\ response = [c \in Calls |-> None]
    /\ fault = [c \in Calls |-> None]
    /\ authCalls = [c \in Calls |-> 0]
    /\ executeCalls = [c \in Calls |-> 0]
    /\ requests = [c \in Calls |-> <<>>]
    /\ returned = [c \in Calls |-> None]

Init == InitProvider /\ InitCalls /\ urlArgs = NoUrlArgs /\ urlOut = None

Next ==
    \E c \in Calls :
        \/ \E e \in Endpoints, a \in QueryArgs : QueryCall(c, e, a)
        \/ \E r \in AllAuthenticateResults : Authenticate(c, r)
        \/ LogAuth(c)
        \/ LogQuery(c)
        \/ Execute(c)
        \/ \E r \in Responses : Respond(c, r)
        \/ \E k \in TransportFaults(timeout[c]) : TransportFault(c, k)
        \/ LogResult(c)

Spec == Init /\ [][Next]_vars

\* The steps of a call once it has started.  Each statement of query() runs
\* as soon as the one before it is over, and requests.get blocks until the
\* transport answers or faults.
Proceed(c) ==
    \/ \E r \in AllAuthenticateResults : Authenticate(c, r)
    \/ LogAuth(c)
    \/ LogQuery(c)
    \/ Execute(c)
    \/ \E r \in Responses : Respond(c, r)
    \/ \E k \in TransportFaults(timeout[c]) : TransportFault(c, k)
    \/ LogResult(c)

\* The calls whose progress is followed: the call of gbif.py:463 with a
\* timeout, on a GBIF endpoint and on the custom endpoint.
LiveEndpoints == {"species", "custom"}

LiveArgs ==
    {[subendpoints |-> PyList(<<"suggest">>),
      parameters |-> PyDict(<<<<"q", PyStr("Picea abies")>>>>),
      timeout |-> PyInt(5)]}

NextLive ==
    \E c \in Calls :
        \/ \E e \in LiveEndpoints, a \in LiveArgs : QueryCall(c, e, a)
        \/ Proceed(c)

\* query() is synchronous, so at most one call is in progress: the thread
\* keeps executing the statements of that call.
Running == \E c \in Calls : Proceed(c)

SpecLive == Init /\ [][NextLive]_vars /\ WF_vars(Running)

InitUrl == InitProvider /\ InitCalls /\ urlArgs \in UrlInputs /\ urlOut = None

NextUrl == Compose

SpecUrl == InitUrl /\ [][NextUrl]_vars

(***************************************************************************)
(* The provider from its construction on: GBIF_API_V1(user, password)      *)
(* under an environment, then query() calls with any arguments and direct  *)
(* endpoint.authenticate() calls.                                          *)
(***************************************************************************)
MaxDirect == 1

CtorArgs ==
    [user : {None, PyStr("explicit_user"), PyInt(1)},
     password : {None, PyStr("explicit_password"), PyInt(1)}]

Environs ==
    [GBIF_USER : {None, PyStr("env_user")},
     GBIF_PASSWORD : {None, PyStr("env_password")}]

\* Well-formed arguments, a required argument left out, and arguments of
\* the wrong type.
ApiArgs ==
    QueryArgs \cup
    {[subendpoints |-> Missing, parameters |-> PyDict(<<>>), timeout |-> None],
     [subendpoints |-> PyList(<<"suggest">>), parameters |-> Missing,
      timeout |-> None],
     [subendpoints |-> PyStr("suggest"),
      parameters |-> PyDict(<<<<"q", PyStr("Picea abies")>>>>),
      timeout |-> None],
     [subendpoints |-> PyList(<<"suggest">>), parameters |-> PyList(<<"q">>),
      timeout |-> None]}

\* gbif.py:189-204.  The warning is printed before the assertions; a failed
\* assertion leaves no provider behind.  Before the construction there is
\* no endpoint: no key of the mapping leads to one, and nothing has
\* attributes or requires authentication.
Construct ==
    /\ provider = "unconstructed"
    /\ warnings' = IF CtorWarns(ctor) THEN warnings + 1 ELSE warnings
    /\ IF CtorWarns(ctor) /\ ~CtorAsserts(ctor)
       THEN /\ provider' = "failed"
            /\ UNCHANGED <<user, password, objectVars>>
       ELSE /\ provider' = "constructed"
            /\ user' = Stored(ctor.user, environ.GBIF_USER)
            /\ password' = Stored(ctor.password, environ.GBIF_PASSWORD)
            /\ logger_bound' = "lambda"
            /\ endpoints_map' = EndpointsMap
            /\ endpoint_attrs' = [e \in AllEndpoints |-> EndpointAttrs(e)]
            /\ do_authentication' \in Flags
    /\ UNCHANGED <<ctor, environ, direct, sink, urlArgs, urlOut>>
    /\ UNCHANGED callVars

NotImplemented ==
    Raise("NotImplementedError",
          PyStr("Authentication is not implemented for this endpoint, and should not be called."))

\* Faulty variant of EndpointAuthenticate: the base endpoint reports the
\* missing authentication as a failed authentication.
EndpointAuthenticateAsFailure(e, u, p) ==
    IF e = "base"
    THEN {[ok |-> FALSE, value |-> NotImplemented.arg]}
    ELSE AuthenticateResults(e, u, p)

\* endpoint.authenticate(): BaseEndpoint.authenticate raises
\* (default.py:88-89), the GBIF endpoints delegate to the provider
\* (gbif.py:28-29).
EndpointAuthenticate(e, u, p) ==
    IF e = "base" THEN {NotImplemented} ELSE AuthenticateResults(e, u, p)

\* endpoint.authenticate() called by the user, outside any query().
AuthenticateCall(e, o) ==
    /\ provider = "constructed"
    /\ \A c \in Calls : pc[c] = "idle" \/ Terminal(c)
    /\ direct.n < MaxDirect
    /\ o \in EndpointAuthenticate(e, user, password)
    /\ direct' = [n |-> direct.n + 1, endpoint |-> e, outcome |-> o]
    /\ UNCHANGED <<ctorVars, objectVars, sink, urlArgs, urlOut>>
    /\ UNCHANGED callVars

AllOutcomes ==
    UNION {EndpointAuthenticate(e, user, password) : e \in AllEndpoints}

InitApi ==
    /\ ctor \in CtorArgs
    /\ environ \in Environs
    /\ provider = "unconstructed"
    /\ warnings = 0
    /\ user = None
    /\ password = None
    /\ logger_bound = "unbound"
    /\ endpoints_map = [k \in GbifEndpoints |-> NoEndpoint]
    /\ endpoint_attrs = [e \in AllEndpoints |-> None]
    /\ do_authentication = [e \in AllEndpoints |-> FALSE]
    /\ direct = NoDirect
    /\ sink = <<>>
    /\ InitCalls
    /\ urlArgs = NoUrlArgs
    /\ urlOut = None

\* The functions the application binds to provider._logger; construction
\* binds lambda x: None (default.py:123).
Loggers == {"lambda", "print"}

\* Faulty variant of Rebind: the rebinding rebuilds the endpoint mapping
\* and loses the Maps endpoint.
RebindRebuildsEndpoints(f) ==
    /\ provider = "constructed"
    /\ f \in Loggers \ {logger_bound}
    /\ logger_bound' = f
    /\ endpoints_map' = [k \in GbifEndpoints \ {"maps"} |-> k]
    /\ UNCHANGED <<ctorVars, endpoint_attrs, do_authentication, direct, sink,
                   urlArgs, urlOut>>
    /\ UNCHANGED callVars

\* provider._logger = f, by the application, at any time.
Rebind(f) ==
    /\ provider = "constructed"
    /\ f \in Loggers \ {logger_bound}
    /\ logger_bound' = f
    /\ UNCHANGED <<ctorVars, endpoints_map, endpoint_attrs, do_authentication,
                   direct, sink, urlArgs, urlOut>>
    /\ UNCHANGED callVars

\* The execute_args a caller of BaseEndpoint.query passes: none (the
\* default None), an empty mapping, a timeout.
ExecuteArgs == {None, PyDict(<<>>), PyDict(<<<<"timeout", PyInt(5)>>>>)}

\* BaseEndpoint.query called on an endpoint, not through the query of the
\* GBIF endpoints.
BaseQueryCall(c, e, a, x) == CanStart(c) /\ BaseQuery(c, e, a, x)

\* One query() call is followed from its start to its end.
ApiCalls == {1}

NextApi ==
    \/ Construct
    \/ \E e \in AllEndpoints, o \in AllOutcomes : AuthenticateCall(e, o)
    \/ \E f \in Loggers : Rebind(f)
    \/ \E c \in ApiCalls :
        \/ \E e \in Endpoints, a \in ApiArgs : QueryCall(c, e, a)
        \/ \E e \in Endpoints, a \in QueryArgs, x \in ExecuteArgs :
              BaseQueryCall(c, e, a, x)
        \/ \E r \in AllAuthenticateResults : Authenticate(c, r)
        \/ LogAuth(c)
        \/ LogQuery(c)
        \/ Execute(c)
        \/ \E r \in Responses : Respond(c, r)
        \/ \E k \in TransportFaults(timeout[c]) : TransportFault(c, k)
        \/ LogResult(c)

SpecApi == InitApi /\ [][NextApi]_vars

(***************************************************************************)
(* Calls from several threads: a query() can start while others are in     *)
(* progress, and the statements of the calls interleave in any order.      *)
(***************************************************************************)
OverlappingCall(c, e, a) == pc[c] = "idle" /\ Enter(c, e, a)

\* The endpoint and the arguments of gbif.py:463.
ConcEndpoints == {"species"}

ConcArgs ==
    {[subendpoints |-> PyList(<<"suggest">>),
      parameters |-> PyDict(<<<<"q", PyStr("Picea abies")>>>>),
      timeout |-> None]}

\* The server answers, or the connection fails.
ConcResponses == {Response(200, JsonBody)}

NextConc ==
    \E c \in Calls :
        \/ \E e \in ConcEndpoints, a \in ConcArgs : OverlappingCall(c, e, a)
        \/ \E r \in AllAuthenticateResults : Authenticate(c, r)
        \/ LogAuth(c)
        \/ LogQuery(c)
        \/ Execute(c)
        \/ \E r \in ConcResponses : Respond(c, r)
        \/ \E k \in TransportFaults(timeout[c]) : TransportFault(c, k)
        \/ LogResult(c)

InitConc ==
    /\ InitProvider
    /\ do_authentication["custom"]
    /\ InitCalls
    /\ urlArgs = NoUrlArgs
    /\ urlOut = None

SpecConc == InitConc /\ [][NextConc]_vars

(***************************************************************************)
(* Properties.                                                             *)
(***************************************************************************)
\* What the sink received from call c, and the part that went through log.
SinkOf(c) == SelectSeq(sink, LAMBDA en : en.call = c)
LoggedOf(c) == SelectSeq(sink, LAMBDA en : en.call = c /\ en.via = "log")
Sites(entries) == [i \in 1..Len(entries) |-> entries[i].site]
Texts(entries) == [i \in 1..Len(entries) |-> entries[i].text]
IsPrefix(s, full) == Len(s) <= Len(full) /\ s = SubSeq(full, 1, Len(s))
Started(c) == pc[c] # "idle"

\* C1: within one query() call the entries that pass through Provider.log
\* are, in this order and each at most once, the authentication message
\* (only when authentication is enabled), the Query and the result; a call
\* that returns has logged every one of them exactly once, and they are the
\* string forms of its own authentication message, Query and result.
C1_LogOrder ==
    \A c \in Calls :
        LET logged == LoggedOf(c)
            steps == (IF authenticate[c] THEN <<"auth">> ELSE <<>>)
                     \o <<"query", "result">>
        IN /\ IsPrefix(Sites(logged), steps)
           /\ pc[c] = "returned" =>
                /\ Sites(logged) = steps
                /\ Texts(logged) =
                     (IF authenticate[c]
                      THEN <<Str(auth_result[c].value)>> ELSE <<>>)
                     \o <<Str(query[c]), Str(result[c])>>

C1_Witness ==
    \E c \in Calls :
        /\ pc[c] = "returned"
        /\ authenticate[c]
        /\ Sites(LoggedOf(c)) = <<"auth", "query", "result">>

\* C2: when authentication is enabled and authenticate returned
\* (False, msg), the call ends by raising Exception(msg), the sink has
\* received msg once and nothing else from the call, _execute was never
\* invoked and no request was issued.
C2_AuthenticationFailure ==
    \A c \in Calls :
        (/\ authenticate[c]
         /\ auth_result[c] # None
         /\ ~auth_result[c].ok
         /\ pc[c] # "log_auth")
        => /\ pc[c] = "raised"
           /\ fault[c] = Raise("Exception", auth_result[c].value)
           /\ SinkOf(c) = <<[call |-> c, site |-> "auth", via |-> "log",
                             text |-> auth_result[c].value.s]>>
           /\ executeCalls[c] = 0
           /\ requests[c] = <<>>

C2_Witness ==
    \E c \in Calls :
        /\ pc[c] = "raised"
        /\ fault[c].type = "Exception"
        /\ auth_result[c] = [ok |-> FALSE, value |-> PyStr("invalid credentials")]

\* C3 as stated: a call that completes has sent the sink exactly two
\* entries, the Query's string and then the result's string.
C3_TwoEntries ==
    \A c \in Calls :
        pc[c] = "returned" =>
            Texts(SinkOf(c)) = <<Str(query[c]), Str(result[c])>>

\* C3 amended: a query() call on a GBIF-family endpoint that completes has
\* sent the sink exactly four entries, in order: the string of the
\* credential (through log), the string of the Query (through log),
\* 'Querying <url>' (directly) and the string of the result (through log).
C3_FourEntries ==
    \A c \in Calls :
        pc[c] = "returned" =>
            SinkOf(c) =
                <<[call |-> c, site |-> "auth", via |-> "log",
                   text |-> "<requests.auth.HTTPBasicAuth object>"],
                  [call |-> c, site |-> "query", via |-> "log",
                   text |-> QueryStr(query[c])],
                  [call |-> c, site |-> "querying", via |-> "_logger",
                   text |-> "Querying " \o requests[c][1].url],
                  [call |-> c, site |-> "result", via |-> "log",
                   text |-> PairStr(result[c])]>>

C3_Witness ==
    \E c \in Calls :
        /\ pc[c] = "returned"
        /\ result[c].success
        /\ Len(SinkOf(c)) = 4
        /\ SinkOf(c)[2].text =
             "{'subendpoints': ['suggest'], 'parameters': {'q': 'Picea abies'}}"
        /\ SinkOf(c)[4].text = "(True, {'key': 'value'})"

\* C4: a call on an endpoint whose _do_authentication is False never
\* invokes authenticate and logs no authentication entry; _execute is
\* invoked, once, with None as the credential.
C4_NoAuthentication ==
    \A c \in Calls :
        (Started(c) /\ ~do_authentication[endpoint[c]])
        => /\ authCalls[c] = 0
           /\ auth_result[c] = None
           /\ \A i \in 1..Len(SinkOf(c)) : SinkOf(c)[i].site # "auth"
           /\ auth[c] = None
           /\ Terminal(c) => executeCalls[c] = 1

C4_Witness ==
    \E c \in Calls :
        /\ Started(c)
        /\ ~do_authentication[endpoint[c]]
        /\ executeCalls[c] = 1
        /\ Terminal(c)

\* C5: no call issues more than one GET request or invokes _execute more
\* than once, and a call that returns a pair has issued exactly one.
C5_OneRequest ==
    \A c \in Calls :
        /\ Len(requests[c]) <= 1
        /\ executeCalls[c] <= 1
        /\ pc[c] \in {"log_result", "returned"} => Len(requests[c]) = 1

C5_Witness ==
    /\ \E c \in Calls : pc[c] = "returned" /\ Len(requests[c]) = 1
    /\ \E c \in Calls : pc[c] = "raised" /\ response[c].t = "raise"

\* C6 as stated: for every response delivered, status 200 gives
\* (True, decoded body) and every other status (False, raw body), and
\* _execute does not raise.
C6_EveryResponse ==
    \A c \in Calls :
        response[c].t = "Response" =>
            /\ fault[c] = None
            /\ result[c].success = (response[c].status_code = 200)

\* C6 amended: status 200 with a body that is valid JSON gives
\* (True, decoded body); status 200 with a body that is not valid JSON
\* raises the decoder's error and gives no pair; every other status gives
\* (False, raw body) without raising.
C6_Classification ==
    \A c \in Calls :
        response[c].t = "Response" =>
            LET r == response[c] IN
            /\ (r.status_code = 200 /\ r.text = JsonBody) =>
                  /\ result[c] = Pair(TRUE, PyDict(<<<<"key", PyStr("value")>>>>))
                  /\ fault[c] = None
            /\ (r.status_code = 200 /\ r.text = TextBody) =>
                  /\ result[c] = None
                  /\ pc[c] = "raised"
                  /\ fault[c].type = "JSONDecodeError"
            /\ r.status_code # 200 =>
                  /\ result[c] = Pair(FALSE, PyStr(r.text))
                  /\ fault[c] = None

C6_Witness ==
    /\ \E c \in Calls :
          /\ response[c] = Response(200, JsonBody)
          /\ result[c].success
    /\ \E c \in Calls :
          /\ response[c] = Response(404, TextBody)
          /\ result[c] = Pair(FALSE, PyStr("not found"))

\* C7: when requests.get raises a connection or timeout fault, query() ends
\* by raising that same fault: the call has no result, logs no result entry
\* and never returns.
C7_FaultPropagates ==
    \A c \in Calls :
        response[c].t = "raise" =>
            /\ pc[c] = "raised"
            /\ fault[c] = response[c]
            /\ result[c] = None
            /\ \A i \in 1..Len(SinkOf(c)) : SinkOf(c)[i].site # "result"

C7_Witness ==
    \E c \in Calls : response[c].t = "raise" /\ response[c].type = "Timeout"

\* The text of one key=value pair of the inputs, written out.
PairText(item) ==
    CASE item[1] = "q" -> "q=Picea abies"
      [] item[1] = "limit" -> "limit=5"
      [] item[1] = "name" -> "name=a&b=c?d/e"

\* C8: the composed URL is, piece by piece, the base URL, the sub-url and
\* the subendpoints in order with "/" between neighbours, then "?", then
\* the key=value texts in order with "&" between neighbours, the values
\* as plain text and unencoded; the example of the specification gives
\* https://api.example.org/v1/species/suggest?q=Picea abies.
C8_UrlComposition ==
    urlOut # None =>
        LET tk == urlOut.tokens
            s == urlArgs.q.subendpoints.elems
            ps == urlArgs.q.parameters.items
            n == Len(s)
            m == Len(ps)
            mark == 2 * n + 4
        IN /\ Len(tk) = mark + (IF m = 0 THEN 0 ELSE 2 * m - 1)
           /\ tk[1] = urlArgs.base
           /\ tk[3] = urlArgs.sub
           /\ \A i \in 1..n : tk[3 + 2 * i] = s[i]
           /\ \A j \in 1..(n + 1) : tk[2 * j] = "/"
           /\ tk[mark] = "?"
           /\ \A i \in 1..m : tk[mark + 2 * i - 1] = PairText(ps[i])
           /\ \A i \in 1..(m - 1) : tk[mark + 2 * i] = "&"
           /\ urlOut.text = Concat(tk)
           /\ (/\ urlArgs.base = "https://api.example.org/v1"
               /\ urlArgs.sub = "species"
               /\ s = <<"suggest">>
               /\ ps = <<<<"q", PyStr("Picea abies")>>>>)
              => urlOut.text =
                   "https://api.example.org/v1/species/suggest?q=Picea abies"

C8_Witness ==
    /\ urlOut # None
    /\ Len(urlArgs.q.subendpoints.elems) = 2
    /\ Len(urlArgs.q.parameters.items) = 2
    /\ urlArgs.q.parameters.items[2][1] = "name"

\* C9 as stated: on a GBIF-family endpoint (Maps aside) with
\* authentication disabled, _execute invoked with no credential issues the
\* GET request without authentication and raises nothing.
C9_RequestWithoutCredential ==
    \A c \in Calls :
        (/\ Started(c)
         /\ endpoint[c] # "maps"
         /\ ~authenticate[c]
         /\ executeCalls[c] = 1)
        => /\ fault[c] = None
           /\ Len(requests[c]) = 1
           /\ requests[c][1].auth = None

\* C10 as stated: a query() on the Maps endpoint never returns, issues no
\* request, and the fault it ends in is NotImplementedError.
C10_MapsNotImplemented ==
    \A c \in Calls :
        (Started(c) /\ endpoint[c] = "maps")
        => /\ pc[c] # "returned"
           /\ requests[c] = <<>>
           /\ pc[c] = "raised" => fault[c].type = "NotImplementedError"

\* The call was made without a required argument: nothing was constructed.
MissingArguments(c) == Started(c) /\ query[c] = None

\* The constructed Query holds a subendpoints that is not a list or a
\* parameters that is not a dict.
MalformedArguments(c) ==
    /\ Started(c)
    /\ query[c] # None
    /\ (query[c].subendpoints.t # "list" \/ query[c].parameters.t # "dict")

\* C11 as stated: a query() call whose named parameters are missing or
\* malformed fails at query construction, before any authenticate call, any
\* sink entry and any transport request.
C11_FailsAtConstruction ==
    \A c \in Calls :
        (MissingArguments(c) \/ MalformedArguments(c))
        => /\ pc[c] = "raised"
           /\ authCalls[c] = 0
           /\ SinkOf(c) = <<>>
           /\ requests[c] = <<>>

\* C12: when Provider.log is given a value without a callable __str__ (here
\* the message an authenticate override returned), it raises the logging
\* TypeError before the sink is invoked: the sink holds no entry of the
\* call, and the call is over without any execute or request.
C12_LoggingTypeError ==
    \A c \in Calls :
        (/\ auth_result[c] # None
         /\ ~HasStr(auth_result[c].value)
         /\ pc[c] # "log_auth")
        => /\ pc[c] = "raised"
           /\ fault[c] = Raise("TypeError", PyStr("log"))
           /\ SinkOf(c) = <<>>
           /\ executeCalls[c] = 0
           /\ requests[c] = <<>>
           /\ returned[c] = None

C12_Witness ==
    \E c \in Calls :
        /\ auth_result[c] # None
        /\ ~HasStr(auth_result[c].value)
        /\ pc[c] = "raised"
        /\ sink # <<>>

\* C13 as stated: constructing the provider prints the environment-variable
\* warning exactly when an explicit user or an explicit password is
\* supplied, and prints none when both are omitted.
C13_WarningOnExplicit ==
    provider # "unconstructed"
    => /\ warnings \in {0, 1}
       /\ warnings = 1 <=> (ctor.user # None \/ ctor.password # None)

\* C14: for user and password independently, the field the constructed
\* provider stores is the explicit constructor argument when one was given
\* and the value of GBIF_USER / GBIF_PASSWORD otherwise; the credential of a
\* call, and the one every transport request carries, is HTTPBasicAuth of
\* exactly these two stored values.
C14_StoredCredentials ==
    LET u == IF ctor.user # None THEN ctor.user ELSE environ.GBIF_USER
        p == IF ctor.password # None THEN ctor.password
                                     ELSE environ.GBIF_PASSWORD
    IN  provider = "constructed"
        => /\ user = u
           /\ password = p
           /\ \A c \in Calls :
                /\ auth[c] # None
                   => auth[c] = [t |-> "HTTPBasicAuth", username |-> u,
                                 password |-> p]
                /\ \A i \in 1..Len(requests[c]) :
                     /\ requests[c][i].auth.username = user
                     /\ requests[c][i].auth.password = password

C14_Witness ==
    /\ provider = "constructed"
    /\ ctor.user = PyStr("explicit_user")
    /\ ctor.password = None
    /\ environ = [GBIF_USER |-> PyStr("env_user"),
                  GBIF_PASSWORD |-> PyStr("env_password")]
    /\ \E c \in Calls :
         /\ Len(requests[c]) = 1
         /\ requests[c][1].auth.username = PyStr("explicit_user")
         /\ requests[c][1].auth.password = PyStr("env_password")

\* C16: authenticate() called on an endpoint of the base class, whose
\* _do_authentication is False, raises NotImplementedError every time: it
\* returns no (success, credential) pair and the sink is left as it was.
C16_NotSupported ==
    [][(direct'.n # direct.n /\ direct'.endpoint = "base")
       => /\ ~do_authentication["base"]
          /\ direct'.outcome = NotImplemented
          /\ sink' = sink]_vars

C16_Witness ==
    /\ direct.n > 0
    /\ direct.endpoint = "base"
    /\ direct.outcome.t = "raise"
    /\ sink # <<>>

\* C17: the value query() returns is the pair _execute produced for that
\* call (the classification of the call's own response), and the last sink
\* entry of the call is the string form of that same pair; a call that did
\* not return has returned nothing.
C17_ReturnedPair ==
    \A c \in Calls :
        IF pc[c] = "returned"
        THEN /\ returned[c] = result[c]
             /\ returned[c] = Classify(response[c])
             /\ SinkOf(c)[Len(SinkOf(c))] =
                  [call |-> c, site |-> "result", via |-> "log",
                   text |-> PairStr(returned[c])]
        ELSE returned[c] = None

C17_Witness ==
    \E c, d \in Calls :
        /\ pc[c] = "returned" /\ returned[c].success
        /\ pc[d] = "returned" /\ ~returned[d].success

\* repr() of the subendpoints and of the items the inputs are drawn from.
ElementText(e) ==
    CASE e = "suggest" -> "'suggest'"
      [] e = "search" -> "'search'"

ItemText(item) ==
    CASE item[1] = "q" -> "'q': 'Picea abies'"
      [] item[1] = "limit" -> "'limit': 5"
      [] item[1] = "name" -> "'name': 'a&b=c?d/e'"

\* C18: str(Query) is defined for every Query and depends on nothing but
\* its two attributes: it is "{'subendpoints': " followed by the list of the
\* subendpoints in order, ", 'parameters': " followed by the mapping of the
\* parameters in order, and "}"; an empty list shows as [] and an empty
\* mapping as {}.
C18_QueryString ==
    urlOut # None =>
        LET tk == urlOut.str_tokens
            s == urlArgs.q.subendpoints.elems
            ps == urlArgs.q.parameters.items
        IN /\ Len(tk) = 5
           /\ tk[1] = "{'subendpoints': "
           /\ tk[2] = Concat(<<"[">>
                        \o JoinTokens(", ", [i \in 1..Len(s) |-> ElementText(s[i])])
                        \o <<"]">>)
           /\ tk[3] = ", 'parameters': "
           /\ tk[4] = Concat(<<"{">>
                        \o JoinTokens(", ", [i \in 1..Len(ps) |-> ItemText(ps[i])])
                        \o <<"}">>)
           /\ tk[5] = "}"
           /\ urlOut.str = Concat(tk)
           /\ urlOut.str = Str(Query(PyList(s), PyDict(ps)))
           /\ (s = <<>> /\ ps = <<>>)
              => urlOut.str = "{'subendpoints': [], 'parameters': {}}"
           /\ (s = <<"suggest">> /\ ps = <<<<"q", PyStr("Picea abies")>>>>)
              => urlOut.str =
                   "{'subendpoints': ['suggest'], 'parameters': {'q': 'Picea abies'}}"
           /\ (s = <<"suggest", "search">> /\ ps = <<>>)
              => urlOut.str =
                   "{'subendpoints': ['suggest', 'search'], 'parameters': {}}"

C18_Witness ==
    /\ urlOut # None
    /\ urlArgs.q.subendpoints.elems = <<>>
    /\ Len(urlArgs.q.parameters.items) = 2
    /\ urlOut.str =
         "{'subendpoints': [], 'parameters': {'limit': 5, 'q': 'Picea abies'}}"

\* The position of a call in the order of its steps: Idle; Authenticating
\* (authenticate called, then its message logged); Constructed and about to
\* log the Query; Logged(query); Executing; executed and about to log the
\* result; Done after Logged(result), or Failed.
Rank(p) ==
    CASE p = "idle" -> 0
      [] p = "authenticate" -> 1
      [] p = "log_auth" -> 2
      [] p = "log_query" -> 3
      [] p = "execute" -> 4
      [] p = "request" -> 5
      [] p = "log_result" -> 6
      [] p \in {"returned", "raised"} -> 7

HasSite(entries, site) == \E i \in 1..Len(entries) : entries[i].site = site

\* C19: every step of a query() call moves it forward in the order Idle,
\* Authenticating, Logged(query), Executing, Logged(result), Done, so no
\* position is taken twice and Done and Failed are final; Authenticating is
\* entered only with the authentication flag set; _execute is entered only
\* after the Query entry is in the sink; the call returns only with its
\* result entry in the sink; a failed authentication leads directly to
\* Failed, with no _execute and no request.
C19_ForwardOnly ==
    [][\A c \in Calls :
         pc'[c] # pc[c]
         => /\ Rank(pc'[c]) > Rank(pc[c])
            /\ pc'[c] = "authenticate" => do_authentication[endpoint'[c]]
            /\ pc'[c] = "log_query" /\ pc[c] = "idle"
               => ~do_authentication[endpoint'[c]]
            /\ executeCalls'[c] # executeCalls[c]
               => pc[c] = "execute" /\ HasSite(LoggedOf(c), "query")
            /\ pc'[c] = "returned"
               => pc[c] = "log_result" /\ HasSite(LoggedOf(c)', "result")
            /\ (pc[c] = "log_auth" /\ ~auth_result[c].ok)
               => /\ pc'[c] = "raised"
                  /\ executeCalls'[c] = 0
                  /\ requests'[c] = <<>>]_vars

C19_Witness ==
    \E c, d \in Calls :
        /\ pc[c] = "returned" /\ authenticate[c]
        /\ pc[d] = "raised" /\ auth_result[d] # None /\ ~auth_result[d].ok

\* C20: no step of a query() call, whatever the call's outcome, changes the
\* endpoints' attributes (name, sub-url, delimiters, authentication flag),
\* the provider's user and password, its endpoint mapping or the function
\* bound as its sink, nor the subendpoints and parameters of a Query once
\* constructed; the sink only receives new entries at its end, and the
\* requests of a call only grow by the request of that call.
C20_ReadOnly ==
    [][/\ endpoint_attrs' = endpoint_attrs
       /\ do_authentication' = do_authentication
       /\ user' = user
       /\ password' = password
       /\ endpoints_map' = endpoints_map
       /\ logger_bound' = logger_bound
       /\ \A c \in Calls : query[c] # None => query'[c] = query[c]
       /\ IsPrefix(sink, sink')
       /\ \A c \in Calls :
            \/ requests'[c] = requests[c]
            \/ /\ pc[c] = "execute"
               /\ requests'[c] = Append(requests[c], Request(c))
               /\ \A d \in Calls \ {c} : requests'[d] = requests[d]]_vars

C20_Witness ==
    \E c, d \in Calls :
        /\ pc[c] = "returned" /\ Len(requests[c]) = 1
        /\ pc[d] = "raised" /\ Len(requests[d]) = 1
        /\ Len(sink) > 4

\* The steps of call c that pass through Provider.log, in program order.
LogSteps(c) ==
    (IF authenticate[c] THEN <<"auth">> ELSE <<>>) \o <<"query", "result">>

\* The entries of two calls alternate in the sink.
Interleaved(c, d) ==
    \E i, j, k \in 1..Len(sink) :
        /\ i < j /\ j < k
        /\ sink[i].call = c /\ sink[j].call = d /\ sink[k].call = c

\* C15: when query() calls overlap, every step takes place in its own
\* call's order whatever the other calls do: the sink grows by one entry at
\* its end at a time; an entry a call logs is the next one of its own
\* sequence authentication message, Query, result and carries the string of
\* that call's own value; _execute of a call starts after its Query entry
\* and before its result entry, and the result entry follows its _execute.
C15_InterleavedOrder ==
    [][/\ IsPrefix(sink, sink')
       /\ Len(sink') <= Len(sink) + 1
       /\ \A c \in Calls :
            LET old == LoggedOf(c)
                new == LoggedOf(c)'
                n == Len(new)
            IN /\ new # old
                  => /\ n = Len(old) + 1
                     /\ n <= Len(LogSteps(c))
                     /\ new[n].site = LogSteps(c)[n]
                     /\ new[n].site = "auth"
                        => new[n].text = Str(auth_result[c].value)
                     /\ new[n].site = "query"
                        => new[n].text = Str(query[c]) /\ executeCalls[c] = 0
                     /\ new[n].site = "result"
                        => new[n].text = Str(result[c]) /\ executeCalls[c] = 1
               /\ executeCalls'[c] # executeCalls[c]
                  => /\ executeCalls[c] = 0
                     /\ HasSite(old, "query")
                     /\ ~HasSite(new, "result")]_vars

C15_Witness ==
    \E c, d \in Calls :
        /\ c # d
        /\ pc[c] = "returned"
        /\ pc[d] = "returned"
        /\ Interleaved(c, d)
        /\ Interleaved(d, c)

\* C21: once the provider is constructed, and whatever query() calls, direct
\* authenticate() calls and rebindings of the sink have taken place, its
\* endpoint mapping has exactly the keys registry, species, occurrence and
\* maps, each leading to the endpoint of that name, and every endpoint of
\* the mapping has this provider as its owner.
C21_EndpointMapping ==
    provider = "constructed"
    => /\ DOMAIN endpoints_map = {"registry", "species", "occurrence", "maps"}
       /\ \A k \in DOMAIN endpoints_map :
            /\ endpoint_attrs[endpoints_map[k]].name = k
            /\ endpoint_attrs[endpoints_map[k]].provider = "GBIF_API_V1"

C21_Witness ==
    /\ provider = "constructed"
    /\ logger_bound = "print"
    /\ direct.n > 0
    /\ \E c \in Calls : pc[c] = "returned"

\* C22: provided a started call keeps running and the transport answers or
\* faults, there comes a time from which every query() call that was started
\* has returned a pair or raised, and at no time has a call called
\* authenticate more than once or issued more than one transport request.
C22_Terminates ==
    /\ <>[](\A c \in Calls : Started(c) => Terminal(c))
    /\ [](\A c \in Calls : authCalls[c] <= 1 /\ Len(requests[c]) <= 1)

C22_Witness ==
    \E c, d \in Calls :
        /\ pc[c] = "returned" /\ authCalls[c] = 1 /\ Len(requests[c]) = 1
        /\ pc[d] = "raised" /\ authCalls[d] = 1 /\ Len(requests[d]) = 1

\* The entries of call c written at the given site.
AtSite(c, site) == SelectSeq(SinkOf(c), LAMBDA en : en.site = site)

\* C23 as stated: every _execute of a GBIF-family endpoint that passes its
\* argument type checks has sent "Querying <url>" to the sink exactly once,
\* directly and not through Provider.log, with the URL of the request, after
\* the call's Query entry and before any result entry.
C23_QueryingEntry ==
    \A c \in Calls :
        (/\ executeCalls[c] = 1
         /\ endpoint[c] # "maps"
         /\ ArgumentCheck(query[c], auth[c]) = None)
        => LET entries == SinkOf(c)
               querying == AtSite(c, "querying")
               at == CHOOSE i \in 1..Len(entries) :
                        entries[i].site = "querying"
           IN /\ Len(querying) = 1
              /\ querying[1].via = "_logger"
              /\ Len(requests[c]) = 1
              /\ querying[1].text = "Querying " \o requests[c][1].url
              /\ entries[at - 1].site = "query"
              /\ \A i \in 1..Len(entries) :
                   entries[i].site = "result" => i = at + 1

\* C24 as stated: when _execute raises, query() ends with that exception and
\* returns nothing, the sink has no result entry of the call, and the
\* authentication entry and the Query entry of the call are in the sink.
C24_ExecuteRaises ==
    \A c \in Calls :
        (pc[c] = "raised" /\ executeCalls[c] = 1)
        => /\ fault[c].t = "raise"
           /\ returned[c] = None
           /\ ~HasSite(SinkOf(c), "result")
           /\ HasSite(LoggedOf(c), "query")
           /\ HasSite(LoggedOf(c), "auth")

\* C24, amended: when _execute raises (a transport fault, a 200 response
\* whose body is not JSON, a failed argument type check), query() ends with
\* that exception and returns nothing, the sink has no result entry of the
\* call, the Query entry of the call is in the sink, and the authentication
\* entry is in the sink exactly when the call authenticates.
C24_ExecuteRaisesAfterEntries ==
    \A c \in Calls :
        (pc[c] = "raised" /\ executeCalls[c] = 1)
        => /\ fault[c].t = "raise"
           /\ returned[c] = None
           /\ ~HasSite(SinkOf(c), "result")
           /\ HasSite(LoggedOf(c), "query")
           /\ authenticate[c] <=> HasSite(LoggedOf(c), "auth")

C24_Witness ==
    \E c, d \in Calls :
        /\ pc[c] = "raised" /\ executeCalls[c] = 1
        /\ fault[c].type = "JSONDecodeError"
        /\ pc[d] = "raised" /\ executeCalls[d] = 1
        /\ fault[d].type = "TypeError" /\ ~authenticate[d]

\* C25: on every endpoint of the GBIF provider authenticate returns
\* (True, HTTPBasicAuth(user, password)) whatever the stored fields are, also
\* when neither the constructor arguments nor the environment supplied them:
\* no query() on such an endpoint raises the authentication failure, and the
\* request of a call made then carries the credential built from None and
\* None.
C25_AlwaysAuthenticated ==
    provider = "constructed"
    => /\ (direct.n > 0 /\ direct.endpoint \in GbifEndpoints)
          => direct.outcome =
               [ok |-> TRUE,
                value |-> [t |-> "HTTPBasicAuth", username |-> user,
                           password |-> password]]
       /\ \A c \in Calls :
            (Started(c) /\ endpoint[c] \in GbifEndpoints)
            => /\ auth_result[c] # None => auth_result[c].ok
               /\ pc[c] = "raised" => fault[c].type # "Exception"
               /\ (user = None /\ password = None /\ requests[c] # <<>>)
                  => requests[c][1].auth =
                       [t |-> "HTTPBasicAuth", username |-> None,
                        password |-> None]

C25_Witness ==
    /\ provider = "constructed"
    /\ ctor = [user |-> None, password |-> None]
    /\ environ = NoEnviron
    /\ direct.n > 0
    /\ direct.endpoint = "occurrence"
    /\ \E c \in Calls :
         /\ endpoint[c] = "species"
         /\ pc[c] = "returned"
         /\ requests[c][1].auth.username = None

====
